---- MODULE Spec2Model ----
(***************************************************************************)
(* Model of `verb link` (src/bin/verb/src/ops/link.rs): the port filter,   *)
(* the artifact selector of Link::execute and the VHDL / SystemVerilog     *)
(* renderers.                                                              *)
(*                                                                         *)
(* Text is modelled as what the code builds: a String is a non-empty       *)
(* sequence of lines, the string being the lines joined by "\n"; a line is *)
(* the sequence of the pieces that format! put on it (a literal segment of *)
(* the format string, or the value of an argument).  A string ending in    *)
(* "\n" therefore has an empty last line.                                  *)
(***************************************************************************)
EXTENDS Integers, Sequences, FiniteSets, TLC

VARIABLES json, bfm, send, comp, bfm_inst, exclude, list,
          filtered_ports, space_next_display, idx, out, pc

vars == <<json, bfm, send, comp, bfm_inst, exclude, list,
          filtered_ports, space_next_display, idx, out, pc>>

inputs == <<json, bfm, send, comp, bfm_inst, exclude, list>>

(* ------------------------------ bounds -------------------------------- *)
MaxPorts == 3
MaxExcl == 2
MaxInst == 2
MaxGen == 2

(* ------------------------------ strings ------------------------------- *)
EmptyStr == << <<>> >>

\* a string without a line break, made of the given pieces
Str(pieces) == << pieces >>

\* "\n"
NL == << <<>>, <<>> >>

\* String::push_str / the juxtaposition of two pieces of a format string
Cat(s, t) == SubSeq(s, 1, Len(s) - 1) \o << s[Len(s)] \o t[1] >> \o Tail(t)

RECURSIVE CatAll(_)
CatAll(ss) == IF ss = <<>> THEN EmptyStr ELSE Cat(Head(ss), CatAll(Tail(ss)))

\* Iterator::fold whose closure pushes one piece per element onto the
\* accumulator: the initial string followed by the pieces, in element order
fold(init, pieces) == Cat(init, CatAll(pieces))

(* ----------------------- the interface description -------------------- *)
Vhdl == "Vhdl"
SystemVerilog == "SystemVerilog"
Verilog == "Verilog"
Language == {Vhdl, SystemVerilog, Verilog}

Net(id, dir, ty, mode) ==
    [identifier |-> id, direction |-> dir, type |-> ty, mode |-> mode]

is_input(n) == n.direction = "input"
is_output(n) == n.direction = "output"

\* Vec<String>::contains
contains(v, x) == \E i \in 1..Len(v) : v[i] = x

(* ------------------------------ renderers ----------------------------- *)
VHDL_HEAD_COMMENT ==
    << <<"-- This procedure is automatically @generated by Verb.">>,
       <<"-- It is not intended for manual editing.">>,
       <<>> >>

VHDL_HEAD_COMMENT_RECORD ==
    << <<"-- This record is automatically @generated by Verb.">>,
       <<"-- It is not intended for manual editing.">>,
       <<>> >>

SV_HEAD_COMMENT ==
    << <<"// This task is automatically @generated by Verb.">>,
       <<"// It is not intended for manual editing.">>,
       <<>> >>

SV_HEAD_COMMENT_INTERFACE ==
    << <<"// This interface is automatically @generated by Verb.">>,
       <<"// It is not intended for manual editing.">>,
       <<>> >>

spacing == "    "

tab(n) == Str([i \in 1..n |-> spacing])

\* mutant: the fields are pushed in reverse port order
vhdl_to_string_bfm_reversed(ports, unit) ==
    LET result == CatAll(<<VHDL_HEAD_COMMENT_RECORD,
                           Str(<<"type ", unit, "_if", " is record">>), NL>>)
        step(n) == CatAll(<<tab(1),
                            Str(<<n.identifier, ": ", n.type, ";">>), NL>>)
    IN  Cat(fold(result, [i \in 1..Len(ports) |-> step(ports[Len(ports) + 1 - i])]),
            Str(<<"end record;">>))

vhdl_to_string_bfm(ports, unit) ==
    LET result == CatAll(<<VHDL_HEAD_COMMENT_RECORD,
                           Str(<<"type ", unit, "_if", " is record">>), NL>>)
        step(n) == CatAll(<<tab(1),
                            Str(<<n.identifier, ": ", n.type, ";">>), NL>>)
    IN  Cat(fold(result, [i \in 1..Len(ports) |-> step(ports[i])]),
            Str(<<"end record;">>))

vhdl_to_string_bfm_inst(unit, inst) ==
    Str(<<"signal ", inst, ": ", unit, "_if", ";">>)

\* mutant: a comma follows every entry, the last included
sv_generate_param_inst_trailing_comma(generics) ==
    IF Len(generics) = 0 THEN EmptyStr
    ELSE LET size == Len(generics)
             result == Cat(Str(<<" #(">>), NL)
             step(i, n) ==
                 LET entry == Cat(tab(1), Str(<<".", n.identifier, "(", n.identifier, ")">>))
                     comma == IF i + 1 <= size
                              THEN Cat(entry, Str(<<",">>)) ELSE entry
                 IN  Cat(comma, NL)
         IN  Cat(fold(result, [k \in 1..size |-> step(k - 1, generics[k])]),
                 Str(<<")">>))

sv_generate_param_inst(generics) ==
    IF Len(generics) = 0 THEN EmptyStr
    ELSE LET size == Len(generics)
             result == Cat(Str(<<" #(">>), NL)
             \* i is enumerate's index, counted from 0
             step(i, n) ==
                 LET entry == Cat(tab(1), Str(<<".", n.identifier, "(", n.identifier, ")">>))
                     comma == IF i + 1 < size
                              THEN Cat(entry, Str(<<",">>)) ELSE entry
                 IN  Cat(comma, NL)
         IN  Cat(fold(result, [k \in 1..size |-> step(k - 1, generics[k])]),
                 Str(<<")">>))

sv_generate_param_decl(generics) ==
    IF Len(generics) = 0 THEN EmptyStr
    ELSE LET size == Len(generics)
             result == Cat(Str(<<" #(">>), NL)
             \* i is enumerate's index, counted from 0
             step(i, n) ==
                 LET entry == Cat(tab(1), Str(<<n.mode, " ", n.type, " ", n.identifier>>))
                     comma == IF i + 1 < size
                              THEN Cat(entry, Str(<<",">>)) ELSE entry
                 IN  Cat(comma, NL)
         IN  Cat(fold(result, [k \in 1..size |-> step(k - 1, generics[k])]),
                 Str(<<")">>))

sv_to_string_bfm_inst(unit, generics, inst) ==
    CatAll(<<Str(<<unit, "_if">>), sv_generate_param_inst(generics),
             Str(<<" ", inst, "();">>)>>)

sv_to_string_bfm(ports, generics, unit) ==
    LET result == CatAll(<<SV_HEAD_COMMENT_INTERFACE,
                           Str(<<"interface ", unit, "_if">>),
                           sv_generate_param_decl(generics),
                           Str(<<";">>), NL>>)
        step(n) == CatAll(<<tab(1),
                            Str(<<n.type, " ", n.identifier, ";">>), NL>>)
    IN  Cat(fold(result, [i \in 1..Len(ports) |-> step(ports[i])]),
            Str(<<"endinterface">>))

vhdl_to_string_send(ports, inst) ==
    LET input_fd == "i"
        drive_fn == "drive"
        result == CatAll(<<VHDL_HEAD_COMMENT,
            Str(<<"procedure send(file ", input_fd, ": text) is">>), NL,
            tab(1), Str(<<"variable row: line;">>), NL,
            Str(<<"begin">>), NL,
            tab(1), Str(<<"if endfile(", input_fd, ") = false then">>), NL,
            tab(2), Str(<<"readline(", input_fd, ", row);">>), NL>>)
        step(n) == CatAll(<<tab(2),
                Str(<<drive_fn, "(row, ", inst, ".", n.identifier, ");">>), NL>>)
    IN  Cat(fold(result, [i \in 1..Len(ports) |-> step(ports[i])]),
            CatAll(<<tab(1), Str(<<"end if;">>), NL, Str(<<"end procedure;">>)>>))

sv_to_string_send(ports, inst) ==
    LET input_fd == "fd"
        drive_fn == "$sscanf(parse"
        result == CatAll(<<SV_HEAD_COMMENT,
            Str(<<"task send(int ", input_fd, ");">>), NL,
            tab(1), Str(<<"automatic string line;">>), NL,
            tab(1), Str(<<"// Read next set of input values from file">>), NL,
            tab(1), Str(<<"if(!$feof(", input_fd, ")) begin">>), NL,
            tab(2), Str(<<"$fgets(line, ", input_fd, ");">>), NL>>)
        step(n) == CatAll(<<tab(2),
                Str(<<drive_fn, "(line), \"%b\", ", inst, ".", n.identifier, ");">>),
                NL>>)
    IN  Cat(fold(result, [i \in 1..Len(ports) |-> step(ports[i])]),
            CatAll(<<tab(1), Str(<<"end">>), NL, Str(<<"endtask">>)>>))

vhdl_to_string_comp(ports, unit, inst) ==
    LET event_fd == "e"
        output_fd == "o"
        load_fn == "load"
        assert_fn == "assert_eq"
        result == CatAll(<<VHDL_HEAD_COMMENT,
            Str(<<"procedure recv(file ", event_fd, ": text; file ",
                  output_fd, ": text) is">>), NL,
            tab(1), Str(<<"variable row: line;">>), NL,
            tab(1), Str(<<"variable mdl: ", unit, "_bfm", ";">>), NL,
            Str(<<"begin">>), NL,
            tab(1), Str(<<"if endfile(", output_fd, ") = false then">>), NL,
            tab(2), Str(<<"readline(", output_fd, ", row);">>), NL>>)
        step(n) ==
            Cat(CatAll(<<tab(2),
                    Str(<<load_fn, "(row, mdl.", n.identifier, ");">>), NL>>),
                CatAll(<<tab(2),
                    Str(<<assert_fn, "(", event_fd, ", ", inst, ".", n.identifier,
                          ", mdl.", n.identifier, ", \"", n.identifier, "\");">>),
                    NL>>))
    IN  Cat(fold(result, [i \in 1..Len(ports) |-> step(ports[i])]),
            CatAll(<<tab(1), Str(<<"end if;">>), NL, Str(<<"end procedure;">>)>>))

\* mutant: the assertions are pushed before the guard is closed
sv_to_string_comp_checks_in_guard(ports, unit, inst, mdl_inst) ==
    LET output_fd == "fd"
        load_fn == "$sscanf(parse"
        assert_fn == "assert_eq"
        result == CatAll(<<SV_HEAD_COMMENT,
            Str(<<"task recv(int ", output_fd, ");">>), NL,
            tab(1), Str(<<"automatic string line;">>), NL,
            tab(1), Str(<<"// Read expected output values from file">>), NL,
            tab(1), Str(<<"if(!$feof(", output_fd, ")) begin">>), NL,
            tab(2), Str(<<"$fgets(line, ", output_fd, ");">>), NL>>)
        load(n) == CatAll(<<tab(2),
                Str(<<load_fn, "(line), \"%b\", ", mdl_inst, ".", n.identifier, ");">>),
                NL>>)
        loaded == fold(result, [i \in 1..Len(ports) |-> load(ports[i])])
        checks0 == CatAll(<<tab(1),
            Str(<<"// Compare received ouputs with expected outputs">>), NL>>)
        check(n) == CatAll(<<tab(1),
                Str(<<assert_fn, "(", inst, ".", n.identifier, ", ", mdl_inst, ".",
                      n.identifier, ", \"", n.identifier, "\");">>), NL>>)
        checks == fold(checks0, [i \in 1..Len(ports) |-> check(ports[i])])
    IN  Cat(Cat(Cat(loaded, checks), CatAll(<<tab(1), Str(<<"end">>), NL>>)),
            Cat(tab(0), Str(<<"endtask">>)))

sv_to_string_comp(ports, unit, inst, mdl_inst) ==
    LET output_fd == "fd"
        load_fn == "$sscanf(parse"
        assert_fn == "assert_eq"
        result == CatAll(<<SV_HEAD_COMMENT,
            Str(<<"task recv(int ", output_fd, ");">>), NL,
            tab(1), Str(<<"automatic string line;">>), NL,
            tab(1), Str(<<"// Read expected output values from file">>), NL,
            tab(1), Str(<<"if(!$feof(", output_fd, ")) begin">>), NL,
            tab(2), Str(<<"$fgets(line, ", output_fd, ");">>), NL>>)
        load(n) == CatAll(<<tab(2),
                Str(<<load_fn, "(line), \"%b\", ", mdl_inst, ".", n.identifier, ");">>),
                NL>>)
        guarded == Cat(fold(result, [i \in 1..Len(ports) |-> load(ports[i])]),
                       CatAll(<<tab(1), Str(<<"end">>), NL>>))
        checks0 == CatAll(<<tab(1),
            Str(<<"// Compare received ouputs with expected outputs">>), NL>>)
        check(n) == CatAll(<<tab(1),
                Str(<<assert_fn, "(", inst, ".", n.identifier, ", ", mdl_inst, ".",
                      n.identifier, ", \"", n.identifier, "\");">>), NL>>)
        checks == fold(checks0, [i \in 1..Len(ports) |-> check(ports[i])])
    IN  Cat(Cat(guarded, checks), Cat(tab(0), Str(<<"endtask">>)))

(* ------------------------------ execute ------------------------------- *)
\* standard output is modelled as the sequence of the strings written to it
\* println!("{}", result)
println(result) == Cat(result, NL)

\* println!()
separator == NL

\* mutant: the test of the exclude list is inverted
filter_ports_inverted(ports, excl) ==
    SelectSeq(ports, LAMBDA p : contains(excl, p.identifier) = TRUE)

\* lines 33-38: the ports whose identifier the exclude list does not contain
filter_ports(ports, excl) ==
    SelectSeq(ports, LAMBDA p : contains(excl, p.identifier) = FALSE)

\* lines 41-52: what the --list branch prints
list_output(ports) ==
    LET ins == SelectSeq(ports, is_input)
        outs == SelectSeq(ports, is_output)
        name(n) == Str(<<" ", n.identifier>>)
    IN  CatAll(<<Str(<<"input vectors order:">>), NL, Str(<<" ">>),
                 CatAll([i \in 1..Len(ins) |-> name(ins[i])]),
                 NL, NL,
                 Str(<<"output vectors order:">>), NL, Str(<<" ">>),
                 CatAll([i \in 1..Len(outs) |-> name(outs[i])]),
                 NL, NL>>)

\* mutant: the --list branch does not return
ExecStart_no_return ==
    /\ pc = "start"
    /\ filtered_ports' = filter_ports(json.ports, exclude)
    /\ IF list = TRUE
       THEN out' = Append(out, list_output(filtered_ports'))
       ELSE out' = out
    /\ pc' = "bfm"
    /\ space_next_display' = FALSE
    /\ UNCHANGED <<inputs, idx>>

\* lines 33-56: filter, then the --list branch or the start of the selection
ExecStart ==
    /\ pc = "start"
    /\ filtered_ports' = filter_ports(json.ports, exclude)
    /\ IF list = TRUE
       THEN /\ out' = Append(out, list_output(filtered_ports'))
            /\ pc' = "done"
       ELSE /\ out' = out
            /\ pc' = "bfm"
    /\ space_next_display' = FALSE
    /\ UNCHANGED <<inputs, idx>>

\* mutant: the unsupported dialect shares the SystemVerilog arm
ExecBfm_verilog_as_sv ==
    /\ pc = "bfm"
    /\ IF bfm = TRUE
       THEN LET result ==
                    IF json.language = Vhdl
                    THEN vhdl_to_string_bfm(filtered_ports, json.identifier)
                    ELSE sv_to_string_bfm(filtered_ports, json.generics,
                                          json.identifier)
            IN  /\ out' = Append(out, println(result))
                /\ space_next_display' = TRUE
                /\ pc' = "inst"
       ELSE /\ pc' = "inst"
            /\ UNCHANGED <<out, space_next_display>>
    /\ UNCHANGED <<inputs, filtered_ports, idx>>

\* lines 58-72
ExecBfm ==
    /\ pc = "bfm"
    /\ IF bfm = TRUE
       THEN IF json.language = Verilog
            THEN /\ pc' = "panic"
                 /\ UNCHANGED <<out, space_next_display>>
            ELSE LET result ==
                         IF json.language = Vhdl
                         THEN vhdl_to_string_bfm(filtered_ports, json.identifier)
                         ELSE sv_to_string_bfm(filtered_ports, json.generics,
                                               json.identifier)
                 IN  /\ out' = Append(out, println(result))
                     /\ space_next_display' = TRUE
                     /\ pc' = "inst"
       ELSE /\ pc' = "inst"
            /\ UNCHANGED <<out, space_next_display>>
    /\ UNCHANGED <<inputs, filtered_ports, idx>>

\* mutant: the loop over the instance names stops after its first iteration
ExecInst_once ==
    /\ pc = "inst"
    /\ IF bfm_inst.is_some /\ idx <= Len(bfm_inst.names)
       THEN LET spaced == IF space_next_display = TRUE
                          THEN Append(out, separator) ELSE out
            IN  IF json.language = Verilog
                THEN /\ out' = spaced
                     /\ pc' = "panic"
                     /\ UNCHANGED <<space_next_display, idx>>
                ELSE LET result ==
                             IF json.language = Vhdl
                             THEN vhdl_to_string_bfm_inst(json.identifier,
                                                          bfm_inst.names[idx])
                             ELSE sv_to_string_bfm_inst(json.identifier,
                                                        json.generics,
                                                        bfm_inst.names[idx])
                     IN  /\ out' = Append(spaced, println(result))
                         /\ space_next_display' = TRUE
                         /\ idx' = idx + 1
                         /\ pc' = "send"
       ELSE /\ pc' = "send"
            /\ UNCHANGED <<out, space_next_display, idx>>
    /\ UNCHANGED <<inputs, filtered_ports>>

\* lines 74-93: one iteration of the loop over the instance names, or its exit
ExecInst ==
    /\ pc = "inst"
    /\ IF bfm_inst.is_some /\ idx <= Len(bfm_inst.names)
       THEN LET spaced == IF space_next_display = TRUE
                          THEN Append(out, separator) ELSE out
            IN  IF json.language = Verilog
                THEN /\ out' = spaced
                     /\ pc' = "panic"
                     /\ UNCHANGED <<space_next_display, idx>>
                ELSE LET result ==
                             IF json.language = Vhdl
                             THEN vhdl_to_string_bfm_inst(json.identifier,
                                                          bfm_inst.names[idx])
                             ELSE sv_to_string_bfm_inst(json.identifier,
                                                        json.generics,
                                                        bfm_inst.names[idx])
                     IN  /\ out' = Append(spaced, println(result))
                         /\ space_next_display' = TRUE
                         /\ idx' = idx + 1
                         /\ pc' = "inst"
       ELSE /\ pc' = "send"
            /\ UNCHANGED <<out, space_next_display, idx>>
    /\ UNCHANGED <<inputs, filtered_ports>>

\* mutant: the separator is printed whether or not something precedes
ExecSend_always_spaced ==
    /\ pc = "send"
    /\ IF send = TRUE
       THEN LET spaced == Append(out, separator)
                ports == SelectSeq(filtered_ports, is_input)
            IN  IF json.language = Verilog
                THEN /\ out' = spaced
                     /\ pc' = "panic"
                     /\ UNCHANGED space_next_display
                ELSE LET result ==
                             IF json.language = Vhdl
                             THEN vhdl_to_string_send(ports, "bfm")
                             ELSE sv_to_string_send(ports, "bfm")
                     IN  /\ out' = Append(spaced, println(result))
                         /\ space_next_display' = TRUE
                         /\ pc' = "comp"
       ELSE /\ pc' = "comp"
            /\ UNCHANGED <<out, space_next_display>>
    /\ UNCHANGED <<inputs, filtered_ports, idx>>

\* mutant: the ports are not restricted to the input direction
ExecSend_all_ports ==
    /\ pc = "send"
    /\ IF send = TRUE
       THEN LET spaced == IF space_next_display = TRUE
                          THEN Append(out, separator) ELSE out
                ports == filtered_ports
            IN  IF json.language = Verilog
                THEN /\ out' = spaced
                     /\ pc' = "panic"
                     /\ UNCHANGED space_next_display
                ELSE LET result ==
                             IF json.language = Vhdl
                             THEN vhdl_to_string_send(ports, "bfm")
                             ELSE sv_to_string_send(ports, "bfm")
                     IN  /\ out' = Append(spaced, println(result))
                         /\ space_next_display' = TRUE
                         /\ pc' = "comp"
       ELSE /\ pc' = "comp"
            /\ UNCHANGED <<out, space_next_display>>
    /\ UNCHANGED <<inputs, filtered_ports, idx>>

\* lines 95-112
ExecSend ==
    /\ pc = "send"
    /\ IF send = TRUE
       THEN LET spaced == IF space_next_display = TRUE
                          THEN Append(out, separator) ELSE out
                ports == SelectSeq(filtered_ports, is_input)
            IN  IF json.language = Verilog
                THEN /\ out' = spaced
                     /\ pc' = "panic"
                     /\ UNCHANGED space_next_display
                ELSE LET result ==
                             IF json.language = Vhdl
                             THEN vhdl_to_string_send(ports, "bfm")
                             ELSE sv_to_string_send(ports, "bfm")
                     IN  /\ out' = Append(spaced, println(result))
                         /\ space_next_display' = TRUE
                         /\ pc' = "comp"
       ELSE /\ pc' = "comp"
            /\ UNCHANGED <<out, space_next_display>>
    /\ UNCHANGED <<inputs, filtered_ports, idx>>

\* lines 114-138
ExecComp ==
    /\ pc = "comp"
    /\ IF comp = TRUE
       THEN LET spaced == IF space_next_display = TRUE
                          THEN Append(out, separator) ELSE out
                ports == SelectSeq(filtered_ports, is_output)
            IN  IF json.language = Verilog
                THEN /\ out' = spaced
                     /\ pc' = "panic"
                ELSE LET result ==
                             IF json.language = Vhdl
                             THEN vhdl_to_string_comp(ports, json.identifier, "bfm")
                             ELSE sv_to_string_comp(ports, json.identifier,
                                                    "bfm", "mdl")
                     IN  /\ out' = Append(spaced, println(result))
                         /\ pc' = "done"
       ELSE /\ pc' = "done"
            /\ out' = out
    /\ UNCHANGED <<inputs, filtered_ports, idx, space_next_display>>

(* --------------------------- the inputs checked ------------------------ *)
PortIds == {"a", "b", "c"}

TypeOf(id) == CASE id = "a" -> "logic"
                [] id = "b" -> "logic[7:0]"
                [] OTHER -> "logic[8:0]"

Ports == { Net(id, d, TypeOf(id), IF d = "input" THEN "in" ELSE "out") :
           id \in PortIds, d \in {"input", "output"} }

Unique(s) == \A i, j \in 1..Len(s) : s[i].identifier = s[j].identifier => i = j

SeqsUpTo(S, n) == UNION { [1..k -> S] : k \in 0..n }

PortSeqs == { s \in SeqsUpTo(Ports, MaxPorts) : Unique(s) }

ExclSeqs == SeqsUpTo({"a", "b", "zz"}, MaxExcl)

Generics == { Net(id, "none", "int", "parameter") : id \in {"N", "W", "D"} }

GenSeqs == { s \in SeqsUpTo(Generics, MaxGen) : Unique(s) }

InstOpts == { [is_some |-> FALSE, names |-> <<>>] }
            \cup { [is_some |-> TRUE, names |-> s] : s \in SeqsUpTo({"u", "v"}, MaxInst) }

Unit(id, lang, ports, generics) ==
    [identifier |-> id, language |-> lang, ports |-> ports, generics |-> generics]

SamplePorts == << Net("a", "input", "logic", "in"),
                  Net("b", "output", "logic[7:0]", "out"),
                  Net("c", "input", "logic[8:0]", "in") >>

\* every port sequence and exclusion list, all selectors set
InitPorts ==
    /\ json \in { Unit("add", l, p, <<>>) : l \in Language, p \in PortSeqs }
    /\ exclude \in ExclSeqs
    /\ list \in BOOLEAN
    /\ bfm = TRUE /\ send = TRUE /\ comp = TRUE
    /\ bfm_inst = [is_some |-> TRUE, names |-> <<"u">>]

\* every combination of selectors, instance names and generics
InitSelectors ==
    /\ json \in { Unit(u, l, SamplePorts, g) :
                  u \in {"add", "mul"}, l \in Language, g \in GenSeqs }
    /\ exclude = <<>>
    /\ list \in BOOLEAN
    /\ bfm \in BOOLEAN /\ send \in BOOLEAN /\ comp \in BOOLEAN
    /\ bfm_inst \in InstOpts

Init ==
    /\ InitPorts \/ InitSelectors
    /\ filtered_ports = <<>>
    /\ space_next_display = FALSE
    /\ idx = 1
    /\ out = <<>>
    /\ pc = "start"

Next == ExecStart \/ ExecBfm \/ ExecInst \/ ExecSend \/ ExecComp

Spec == Init /\ [][Next]_vars

(* ------------------- reading the generated text back ------------------ *)
Range(q) == { q[i] : i \in 1..Len(q) }

InLine(l, t) == \E i \in 1..Len(l) : l[i] = t

HasTok(text, t) == \E k \in 1..Len(text) : InLine(text[k], t)

LinesWith(text, t) == SelectSeq(text, LAMBDA l : InLine(l, t))

\* the line numbers of the lines of text that hold piece t
LineNos(text, t) == { k \in 1..Len(text) : InLine(text[k], t) }

Ids(ports) == [i \in 1..Len(ports) |-> ports[i].identifier]

IsPrefix(s, t) == Len(s) <= Len(t) /\ SubSeq(t, 1, Len(s)) = s

IsSep(e) == e = NL

\* which artifact a printed string is, told from its text alone
KindOf(e) ==
    CASE HasTok(e, "input vectors order:") -> "list"
      [] HasTok(e, " is record") \/ HasTok(e, "interface ") -> "bfm"
      [] HasTok(e, "signal ") \/ HasTok(e, "();") -> "inst"
      [] HasTok(e, "procedure send(file ") \/ HasTok(e, "task send(int ") -> "send"
      [] HasTok(e, "procedure recv(file ") \/ HasTok(e, "task recv(int ") -> "recv"
      [] IsSep(e) -> "sep"
      [] OTHER -> "unknown"

Artifacts == SelectSeq(out, LAMBDA e : ~IsSep(e))

Kinds(es) == [i \in 1..Len(es) |-> KindOf(es[i])]

OfKind(k) == SelectSeq(out, LAMBDA e : KindOf(e) = k)

Supported == json.language \in {Vhdl, SystemVerilog}

ExcludedIds == Range(exclude)

\* the position of the port named id in the port sequence ps (unique identifiers)
PosIn(ps, id) == CHOOSE i \in 1..Len(ps) : ps[i].identifier = id

(* ------------------------------- C1 ----------------------------------- *)
FilterCorrect(ports, excl, res) ==
    /\ \A i \in 1..Len(res) :
          /\ res[i] \in Range(ports)
          /\ res[i].identifier \notin Range(excl)
    /\ \A p \in Range(ports) :
          p.identifier \notin Range(excl) => p \in Range(res)
    /\ \A i, j \in 1..Len(res) :
          i < j => PosIn(ports, res[i].identifier) < PosIn(ports, res[j].identifier)

\* C1: the filtering step of execute leaves in filtered_ports exactly the ports
\* of the Interface Description whose identifier is not in the exclusion list,
\* in their relative order; an identifier matching no port changes nothing and
\* raises no failure; the Interface Description itself is unchanged.
C1_FilterIsOrderedSubsequence ==
    [][pc = "start" =>
         /\ FilterCorrect(json.ports, exclude, filtered_ports')
         /\ json' = json
         /\ pc' # "panic"
         /\ filtered_ports' =
              filter_ports(json.ports,
                           SelectSeq(exclude, LAMBDA x : x \in Range(Ids(json.ports))))
      ]_vars

C1_Witness ==
    /\ pc # "start"
    /\ Len(filtered_ports) >= 2
    /\ Len(filtered_ports) < Len(json.ports)
    /\ \E x \in ExcludedIds : x \notin Range(Ids(json.ports))

(* ------------------------------- C2 ----------------------------------- *)
\* the identifiers printed on a line of the --list output
IdsOnLine(l) == SelectSeq(l, LAMBDA t : t # " ")

\* C2: with list-only set, execute prints the identifiers of the filtered
\* input ports in filtered order, then those of the filtered output ports in
\* filtered order, and returns successfully having rendered no interface
\* type, instance, send or receive artifact, whatever the other selectors and
\* the dialect.
C2_ListOnly ==
    list = TRUE =>
       /\ pc \in {"start", "done"}
       /\ pc = "start" => out = <<>>
       /\ pc = "done" =>
            /\ Len(out) = 1
            /\ KindOf(out[1]) = "list"
            /\ Len(out[1]) = 7
            /\ out[1][1] = <<"input vectors order:">>
            /\ IdsOnLine(out[1][2]) = Ids(SelectSeq(filtered_ports, is_input))
            /\ out[1][4] = <<"output vectors order:">>
            /\ IdsOnLine(out[1][5]) = Ids(SelectSeq(filtered_ports, is_output))
            /\ \A k \in {"bfm", "inst", "send", "recv"} : OfKind(k) = <<>>

C2_Witness ==
    /\ list = TRUE /\ pc = "done"
    /\ bfm /\ send /\ comp /\ bfm_inst.is_some /\ bfm_inst.names # <<>>
    /\ json.language = Verilog
    /\ Len(SelectSeq(filtered_ports, is_input)) >= 2
    /\ Len(SelectSeq(filtered_ports, is_output)) >= 1

(* ------------------------------- C3 ----------------------------------- *)
ExpectedKinds ==
    (IF bfm THEN <<"bfm">> ELSE <<>>)
    \o (IF bfm_inst.is_some
        THEN [i \in 1..Len(bfm_inst.names) |-> "inst"] ELSE <<>>)
    \o (IF send THEN <<"send">> ELSE <<>>)
    \o (IF comp THEN <<"recv">> ELSE <<>>)

\* C3: without list-only and for a supported dialect, the artifacts appear in
\* the order interface type, instances (one per requested name, in request
\* order), send, receive; each exactly when selected and exactly once.
C3_FixedOrder ==
    (list = FALSE /\ Supported) =>
       /\ pc # "panic"
       /\ IsPrefix(Kinds(Artifacts), ExpectedKinds)
       /\ pc = "done" => Kinds(Artifacts) = ExpectedKinds
       /\ \A i \in 1..Len(OfKind("inst")) :
             HasTok(OfKind("inst")[i], bfm_inst.names[i])

C3_Witness ==
    /\ list = FALSE /\ Supported /\ pc = "done"
    /\ Kinds(Artifacts) = <<"bfm", "inst", "inst", "send", "recv">>
    /\ bfm_inst.names = <<"v", "u">>

(* ------------------------------- C4 ----------------------------------- *)
\* the lines of standard output, all writes put together
Stdout == CatAll(out)

\* C4: without list-only and for a supported dialect, exactly one blank line
\* separates two consecutive artifacts, none precedes the first artifact and
\* none follows the last; none at all with zero or one artifact.
C4_Separators ==
    (list = FALSE /\ Supported) =>
       /\ \A i \in 1..Len(out) :
             /\ IsSep(out[i]) => (i > 1 /\ ~IsSep(out[i - 1]))
             /\ (~IsSep(out[i]) /\ i > 1) => IsSep(out[i - 1])
       /\ pc = "done" =>
            /\ out # <<>> => ~IsSep(out[Len(out)])
            /\ Len(SelectSeq(out, IsSep)) =
                 (IF Len(Artifacts) = 0 THEN 0 ELSE Len(Artifacts) - 1)
            \* in the text itself: the blank lines are those separators
            /\ Cardinality({k \in 1..(Len(Stdout) - 1) : Stdout[k] = <<>>}) =
                 (IF Len(Artifacts) = 0 THEN 0 ELSE Len(Artifacts) - 1)
            /\ Len(Stdout) > 1 => (Stdout[1] # <<>> /\ Stdout[Len(Stdout) - 1] # <<>>)

C4_Witness ==
    /\ list = FALSE /\ Supported /\ pc = "done"
    /\ Len(Artifacts) = 4
    /\ Len(SelectSeq(out, IsSep)) = 3
    /\ bfm = FALSE

C4_WitnessSingle ==
    /\ list = FALSE /\ Supported /\ pc = "done"
    /\ Len(Artifacts) = 1 /\ Len(out) = 1

(* ------------------------------- C5 ----------------------------------- *)
SomeArtifactRequested ==
    bfm \/ (bfm_inst.is_some /\ bfm_inst.names # <<>>) \/ send \/ comp

\* C5: for the unsupported dialect, without list-only and with at least one
\* artifact requested, execute ends in the not-implemented failure (never
\* successfully) and has written nothing at that point: no artifact, no part
\* of one, no separator.
C5_UnsupportedDialect ==
    (json.language = Verilog /\ list = FALSE /\ SomeArtifactRequested) =>
       /\ pc # "done"
       /\ out = <<>>
       \* the first requested artifact is the one that fails
       /\ pc \in {"inst", "send", "comp"} => ~bfm
       /\ pc \in {"send", "comp"} => ~(bfm_inst.is_some /\ bfm_inst.names # <<>>)
       /\ pc = "comp" => ~send

C5_Witness ==
    /\ json.language = Verilog /\ list = FALSE
    /\ pc = "panic" /\ out = <<>>
    /\ bfm = FALSE /\ send = FALSE /\ comp = TRUE
    /\ bfm_inst.is_some = FALSE

(* ------------------------------- C6 ----------------------------------- *)
\* the port identifiers a text mentions
PortRefs(text) == { id \in PortIds : HasTok(text, id) }

\* the identifiers of the ports of the given direction that are not excluded
KeptIds(dir) ==
    { p.identifier : p \in { q \in Range(json.ports) :
                             q.direction = dir /\ q.identifier \notin ExcludedIds } }

\* C6: the send routine mentions exactly the input ports that survive the
\* exclusion and no output port; the receive routine exactly the surviving
\* output ports and no input port.
C6_DirectionPartition ==
    (list = FALSE /\ Supported) =>
       /\ \A e \in Range(OfKind("send")) : PortRefs(e) = KeptIds("input")
       /\ \A e \in Range(OfKind("recv")) : PortRefs(e) = KeptIds("output")

C6_Witness ==
    /\ list = FALSE /\ Supported /\ pc = "done"
    /\ OfKind("send") # <<>> /\ OfKind("recv") # <<>>
    /\ KeptIds("input") # {} /\ KeptIds("output") # {}
    /\ \E p \in Range(json.ports) : is_input(p) /\ p.identifier \in ExcludedIds

(* ------------------------------- C7 ----------------------------------- *)
MentionsPort(l) == \E id \in PortIds : InLine(l, id)

PortLines(text) == SelectSeq(text, MentionsPort)

\* a field of the record / interface: "    id: type;" or "    type id;"
IsFieldLine(l) == Len(l) = 5 /\ l[1] = spacing /\ l[5] = ";"

FieldOf(l) == IF l[3] = ": "
              THEN [identifier |-> l[2], type |-> l[4]]
              ELSE [identifier |-> l[4], type |-> l[2]]

Fields(text) ==
    LET ls == SelectSeq(text, IsFieldLine)
    IN  [i \in 1..Len(ls) |-> FieldOf(ls[i])]

\* the identifier a drive, load or assert statement ends with
StmtId(l) == l[Len(l) - 1]

Stmts(text, fns) ==
    LET ls == SelectSeq(text, LAMBDA l : \E f \in fns : InLine(l, f))
    IN  [i \in 1..Len(ls) |-> StmtId(ls[i])]

DriveFns == {"drive", "$sscanf(parse"}
LoadFns == {"load", "$sscanf(parse"}
AssertFns == {"assert_eq"}

\* C7: in every rendered artifact each per-port list (fields of the interface
\* type, drives of send, loads and assertions of recv) has one entry per port
\* handed to the renderer, in that order, and a field carries the port's type.
C7_OrderPreserved ==
    (list = FALSE /\ Supported) =>
       /\ \A e \in Range(OfKind("bfm")) :
             /\ Fields(e) = [i \in 1..Len(filtered_ports) |->
                               [identifier |-> filtered_ports[i].identifier,
                                type |-> filtered_ports[i].type]]
             /\ PortLines(e) = SelectSeq(e, IsFieldLine)
       /\ \A e \in Range(OfKind("send")) :
             /\ Stmts(e, DriveFns) = Ids(SelectSeq(filtered_ports, is_input))
             /\ Len(PortLines(e)) = Len(Stmts(e, DriveFns))
       /\ \A e \in Range(OfKind("recv")) :
             /\ Stmts(e, LoadFns) = Ids(SelectSeq(filtered_ports, is_output))
             /\ Stmts(e, AssertFns) = Ids(SelectSeq(filtered_ports, is_output))
             /\ Len(PortLines(e)) = 2 * Len(Stmts(e, LoadFns))

C7_Witness ==
    /\ list = FALSE /\ Supported /\ pc = "done"
    /\ Len(filtered_ports) = 3
    /\ OfKind("bfm") # <<>> /\ OfKind("send") # <<>> /\ OfKind("recv") # <<>>
    /\ Len(SelectSeq(filtered_ports, is_output)) = 2
    /\ filtered_ports[1].identifier = "c"

(* ------------------------------- C8 ----------------------------------- *)
NoParamClause(text) ==
    /\ ~HasTok(text, " #(")
    /\ \A g \in Range(json.generics) : ~HasTok(text, g.identifier)

Comma(i, n) == IF i < n THEN <<",">> ELSE <<>>

\* the entry of each generic in a parameter declaration: mode, type, identifier
DeclEntries ==
    [i \in 1..Len(json.generics) |->
        LET g == json.generics[i]
        IN  <<spacing, g.mode, " ", g.type, " ", g.identifier>>]

\* the entry of each generic in a parameter binding: formal g bound to actual g
BindEntries ==
    [i \in 1..Len(json.generics) |->
        LET g == json.generics[i]
        IN  <<spacing, ".", g.identifier, "(", g.identifier, ")">>]

\* text opens one parameter clause, holds the given entries one per line in
\* their order, a comma after each but the last, then closes the clause
ParamClause(text, entries) ==
    LET n == Len(entries)
    IN  /\ Cardinality(LineNos(text, " #(")) = 1
        /\ LET o == CHOOSE k \in LineNos(text, " #(") : TRUE
           IN  /\ Len(text) >= o + n + 1
               /\ \A i \in 1..n : text[o + i] = entries[i] \o Comma(i, n)
               /\ Head(text[o + n + 1]) = ")"

GuardOpen(text) ==
    CHOOSE k \in 1..Len(text) :
        InLine(text[k], "if endfile(") \/ InLine(text[k], "if(!$feof(")

GuardClose(text) ==
    CHOOSE k \in 1..Len(text) :
        text[k] \in { <<spacing, "end if;">>, <<spacing, "end">> }

InGuard(text, k) == GuardOpen(text) < k /\ k < GuardClose(text)

AfterGuard(text, k) == k > GuardClose(text)

StmtLineNos(text, fns) == { k \in 1..Len(text) : \E f \in fns : InLine(text[k], f) }

\* an assertion compares bfm.<id> with mdl.<id> and is tagged "<id>"
AssertsWellFormed(text) ==
    \A k \in StmtLineNos(text, AssertFns) :
       LET l == text[k]
           id == StmtId(l)
       IN  /\ SelectSeq(l, LAMBDA t : t \in PortIds) = <<id, id, id>>
           /\ InLine(l, "bfm")
           /\ InLine(l, "mdl") \/ InLine(l, ", mdl.")
           /\ l[Len(l) - 2] = ", \"" /\ l[Len(l)] = "\");"

AssertsPerPort(text) ==
    /\ Stmts(text, AssertFns) = Ids(SelectSeq(filtered_ports, is_output))
    /\ AssertsWellFormed(text)

LoadsInGuard(text) ==
    /\ Stmts(text, LoadFns) = Ids(SelectSeq(filtered_ports, is_output))
    /\ \A k \in StmtLineNos(text, LoadFns) : InGuard(text, k)

\* C9 as stated: for both supported dialects the assertions of recv lie after
\* the end-of-file guard is closed, the loads inside it.
C9_AsStated ==
    (list = FALSE /\ Supported) =>
       \A e \in Range(OfKind("recv")) :
          /\ AssertsPerPort(e)
          /\ LoadsInGuard(e)
          /\ \A k \in StmtLineNos(e, AssertFns) : AfterGuard(e, k)

\* C9 (amended): for both supported dialects recv emits, per port and in port
\* order, one assertion comparing the live field with the model field, tagged
\* with the identifier, and the loads lie inside the end-of-file guard; for
\* SystemVerilog the assertions come after the guard is closed, for VHDL each
\* assertion lies inside the guard, right after the load of the same port.
C9_Assertions ==
    (list = FALSE /\ Supported) =>
       \A e \in Range(OfKind("recv")) :
          /\ AssertsPerPort(e)
          /\ LoadsInGuard(e)
          /\ \A k \in StmtLineNos(e, AssertFns) :
                IF json.language = SystemVerilog
                THEN AfterGuard(e, k)
                ELSE /\ InGuard(e, k)
                     /\ (k - 1) \in StmtLineNos(e, LoadFns)
                     /\ StmtId(e[k - 1]) = StmtId(e[k])

C9_Witness ==
    /\ list = FALSE /\ json.language = Vhdl /\ pc = "done"
    /\ OfKind("recv") # <<>>
    /\ Len(SelectSeq(filtered_ports, is_output)) >= 2
    /\ Len(SelectSeq(filtered_ports, is_input)) >= 1

(* ------------------------------- C10 ---------------------------------- *)
\* the aggregate type name the interface-type artifact declares
DeclaredType(text) ==
    LET l == CHOOSE l \in Range(text) :
                 l # <<>> /\ Head(l) \in {"type ", "interface "}
    IN  <<l[2], l[3]>>

DeclaredTypeFor(lang, unit) ==
    IF lang = Vhdl THEN DeclaredType(vhdl_to_string_bfm(<<>>, unit))
                   ELSE DeclaredType(sv_to_string_bfm(<<>>, <<>>, unit))

\* the type an instance declaration names
InstType(text) ==
    LET l == text[1]
    IN  IF Head(l) = "signal " THEN <<l[4], l[5]>> ELSE <<l[1], l[2]>>

\* the types of the model instances a receive routine declares
ModelTypes(text) ==
    { <<l[3], l[4]>> : l \in Range(LinesWith(text, "variable mdl: ")) }

\* C10: every aggregate type an instance declaration or the model instance of
\* a receive routine names is the type the interface-type artifact declares
\* for the same unit.
C10_TypeNamesAgree ==
    (list = FALSE /\ Supported) =>
       LET declared == DeclaredTypeFor(json.language, json.identifier)
       IN  /\ \A e \in Range(OfKind("bfm")) : DeclaredType(e) = declared
           /\ \A e \in Range(OfKind("inst")) : InstType(e) = declared
           /\ \A e \in Range(OfKind("recv")) :
                 \A t \in ModelTypes(e) : t = declared

====
